---- MODULE Spec2Model ----
(***************************************************************************)
(* titan-trading-2: position normalisation (main.py export_positions),     *)
(* the alert rule engine (automated_trading_alerts.py) and the snapshot    *)
(* files written and pruned by both.                                       *)
(*                                                                         *)
(* Number representation.  Python floats are modelled by exact integers:   *)
(*   - a percentage is held in hundredths of a percent (35.00 % = 3500),   *)
(*     the resolution round(x, 2) gives it;                                *)
(*   - the simulated RSI is held in thousandths (72 = 72000), so that the  *)
(*     factors 1.2, 1.8 and 0.6 applied to hundredths are the integers     *)
(*     12, 18 and 6;                                                       *)
(*   - money is held in units of 1/MoneyUnit dollar; MoneyUnit is a        *)
(*     multiple of 100 and of every leverage of the model, so a cent and   *)
(*     an unrounded quotient notional / leverage are both exact;           *)
(*   - prices are whole numbers.                                           *)
(* round(x, 2) is round-half-even on the exact quotient.  IEEE NaN and     *)
(* infinities are not modelled.                                            *)
(***************************************************************************)
EXTENDS Integers, Sequences, FiniteSets, TLC

VARIABLES
    \* calculate_simulated_rsi called directly
    rsiArg, rsiRet, rsiPrevArg, rsiPrevRet,
    \* analyze_trading_conditions
    apc, alerts, position, emitted, batchLen, returned,
    \* export_positions
    xpc, sl_tp_map, kraken_sl_tp_map, loc, data, skipped, df, dfAlerts,
    \* the open orders that export_positions fetched, up to the start of
    \* the loop over the positions: only the map made of them is read there
    orders_data, kraken_orders,
    \* the snapshot directory: the clock, the positions_* files, the number
    \* of saves so far; per save the file name it wrote to, and the saves
    \* whose file a later save wrote over
    now, files, saves, written, overwritten,
    \* the last call of a function that reads or prunes the directory:
    \* its name, its arguments and what it returned
    ret,
    \* one cycle of run_trading_analysis: its position, what the three
    \* position endpoints answered, the positions fetched, the alerts found,
    \* the alerts written to latest_alerts.json and those sent to Discord
    cpc, responses, all_positions, cycle_alerts, saved, sent,
    \* a writer (export_positions: to_csv, then cleanup_old_csv_files) and a
    \* reader (get_portfolio_symbols) running as two processes on one
    \* directory: the state of each positions_<k>.csv, the position of the
    \* writer, the file it writes (wfile) and the files its cleanup globbed
    \* and has still to remove (stale); the
    \* position of the reader, the list it globbed, the file it picked and
    \* how its read ended
    disk, wpc, wfile, stale, rpc, listing, latest_file, outcome,
    \* the two Sundown Digest jobs of a day: the day and whether it is a
    \* weekday in Eastern time, the job that is due next, the set of the
    \* days marked as delivered, and what each of the two jobs did today
    day, weekday, dpc, digest_delivery_tracker, mainJob, backupJob

rsiVars == <<rsiArg, rsiRet, rsiPrevArg, rsiPrevRet>>
alertVars == <<apc, alerts, position, emitted, batchLen, returned>>
exportVars ==
    <<xpc, sl_tp_map, kraken_sl_tp_map, loc, data, skipped, df, dfAlerts,
      orders_data, kraken_orders>>
storeVars == <<now, files, saves, written, overwritten>>
dirVars == <<ret>>
cycleVars == <<cpc, responses, all_positions, cycle_alerts, saved, sent>>
concVars == <<disk, wpc, wfile, stale, rpc, listing, latest_file, outcome>>
digestVars == <<day, weekday, dpc, digest_delivery_tracker, mainJob, backupJob>>
notConcVars ==
    <<rsiVars, alertVars, exportVars, storeVars, dirVars, cycleVars, digestVars>>
notDigestVars ==
    <<rsiVars, alertVars, exportVars, storeVars, dirVars, cycleVars, concVars>>
vars == <<notConcVars, concVars>>

(***************************************************************************)
(* Bounds of the model                                                     *)
(***************************************************************************)
\* PnL percentages range over the whole percents -MaxPnl .. MaxPnl
MaxPnl == 40
\* positions handed to one call of analyze_trading_conditions
MaxBatch == 2
\* positions handled by one run of export_positions
MaxRows == 2
\* open orders returned by one fetch
MaxOrders == 2
\* snapshot saves in one behaviour
MaxSaves == 4
\* the clock runs from 0 to MaxClock ticks, TicksPerMinute ticks a minute
MaxClock == 7
TicksPerMinute == 2
\* files found in the directory at start: at most MaxCsv positions_*.csv
\* and MaxJson positions_*.json, modified on the days 0 .. MaxMtime
MaxCsv == 2
MaxJson == 2
MaxMtime == 1
\* cleanup_old_files is called with keep_count in 0 .. MaxKeep
MaxKeep == 1
\* positions in the answer of one endpoint
MaxReported == 2
\* snapshots written while a reader runs beside the writer
MaxWrites == 3
\* days on which the digest jobs run
MaxDays == 4

Min(a, b) == IF a <= b THEN a ELSE b
Max(a, b) == IF a >= b THEN a ELSE b
Abs(a) == IF a < 0 THEN -a ELSE a

(***************************************************************************)
(* Numbers                                                                 *)
(***************************************************************************)
MoneyUnit == 100 * 6                    \* a multiple of 100, 1, 2 and 3
Cent == MoneyUnit \div 100
Dollars(n) == n * MoneyUnit

\* round(n / d, 0) for d > 0, ties to the even neighbour, as Python rounds
RoundDiv(n, d) ==
    LET q == n \div d
        r == n - q * d
    IN  IF 2 * r < d THEN q
        ELSE IF 2 * r > d THEN q + 1
        ELSE IF q % 2 = 0 THEN q ELSE q + 1

\* round((n / d) * 100, 2) in hundredths of a percent; 0 stands for the
\* guarded case d = 0
Pct2(n, d) == RoundDiv(n * 10000, d)

(***************************************************************************)
(* Values a field of a position dict can hold: a number (in hundredths)    *)
(* or something float() rejects (a word, None).                            *)
(***************************************************************************)
Num(v) == [num |-> TRUE, val |-> v]
NonNumeric == [num |-> FALSE, val |-> 0]

\* the rule thresholds of the alert engine, in hundredths of a percent,
\* each with the values just below and just above it
Thresholds == {2500, -1500, -800, 3500}
PnlValues ==
    {p * 100 : p \in -MaxPnl..MaxPnl}
        \cup {t + d : t \in Thresholds, d \in {-1, 1}}
PnlInputs == {Num(v) : v \in PnlValues} \cup {NonNumeric}
\* 'Unrealized PnL %' of the positions handed to the alert engine: every
\* threshold with its two neighbours, zero and the two ends of the range
PositionPnl ==
    {Num(t + d) : t \in Thresholds, d \in {-1, 0, 1}}
        \cup {Num(0), Num(MaxPnl * 100), Num(-MaxPnl * 100), NonNumeric}

(***************************************************************************)
(* calculate_simulated_rsi: the RSI in thousandths for a PnL in hundredths *)
(***************************************************************************)
RsiMutClamp(pnl_percentage) ==
    IF ~pnl_percentage.num THEN 50000
    ELSE IF pnl_percentage.val > 2500
        THEN 50000 + 12 * pnl_percentage.val
    ELSE IF pnl_percentage.val < -1500
        THEN Max(15000, 50000 + 18 * pnl_percentage.val)
    ELSE 50000 + 6 * pnl_percentage.val

RsiMutSteepNeutral(pnl_percentage) ==
    IF ~pnl_percentage.num THEN 50000
    ELSE IF pnl_percentage.val > 2500
        THEN Min(85000, 50000 + 12 * pnl_percentage.val)
    ELSE IF pnl_percentage.val < -1500
        THEN Max(15000, 50000 + 18 * pnl_percentage.val)
    ELSE 50000 + 12 * pnl_percentage.val

calculate_simulated_rsi(pnl_percentage) ==
    IF ~pnl_percentage.num THEN 50000
    ELSE IF pnl_percentage.val > 2500
        THEN Min(85000, 50000 + 12 * pnl_percentage.val)
    ELSE IF pnl_percentage.val < -1500
        THEN Max(15000, 50000 + 18 * pnl_percentage.val)
    ELSE 50000 + 6 * pnl_percentage.val

(***************************************************************************)
(* analyze_trading_conditions: the alerts of one position                  *)
(***************************************************************************)
SLMarkers == {"SET", "UNSET", "MISSING"}   \* 'SL Set?': check mark, cross, key absent
Symbols == {"", "BTC"}
\* 'Margin Size ($)': 50, 150 and 150.01 dollars
MarginValues == {Dollars(50), Dollars(150), Dollars(150) + Cent}

\* mapping: the entry is a dict, so that position.get exists
PositionInputs ==
    [Symbol : Symbols, Pnl : PositionPnl, Margin : MarginValues, SLSet : SLMarkers,
     mapping : {TRUE}]

NoPosition ==
    [Symbol |-> "", Pnl |-> NonNumeric, Margin |-> 0, SLSet |-> "MISSING",
     mapping |-> TRUE]

\* an entry of the list that is no dict: None, a string, a number
NotAMapping ==
    [Symbol |-> "", Pnl |-> NonNumeric, Margin |-> 0, SLSet |-> "MISSING",
     mapping |-> FALSE]

\* lines 253-285: the overbought / oversold pair
RsiAlertsMutIndependent(rsi) ==
    (IF rsi > 72000 THEN <<"overbought">> ELSE <<>>)
        \o (IF rsi > 28000 THEN <<"oversold">> ELSE <<>>)

RsiAlerts(rsi) ==
    IF rsi > 72000 THEN <<"overbought">>
    ELSE IF rsi < 28000 THEN <<"oversold">>
    ELSE <<>>

\* lines 287-302
LosingTradeAlert(pnl_pct) ==
    IF pnl_pct < -800 THEN <<"losing_trade">> ELSE <<>>

\* lines 304-318: position.get('SL Set?', cross) == cross
NoStopLossAlertMutBoundary(margin_size, sl_set) ==
    IF margin_size >= Dollars(150) /\ sl_set \in {"UNSET", "MISSING"}
        THEN <<"no_stop_loss">> ELSE <<>>

NoStopLossAlert(margin_size, sl_set) ==
    IF margin_size > Dollars(150) /\ sl_set \in {"UNSET", "MISSING"}
        THEN <<"no_stop_loss">> ELSE <<>>

HighProfitAlertMutLow(pnl_pct) ==
    IF pnl_pct > 2000 THEN <<"high_profit">> ELSE <<>>

HighProfitAlertMutInclusive(pnl_pct) ==
    IF pnl_pct >= 3500 THEN <<"high_profit">> ELSE <<>>

\* lines 320-333
HighProfitAlert(pnl_pct) ==
    IF pnl_pct > 3500 THEN <<"high_profit">> ELSE <<>>

\* lines 235-339: the body of the loop for one position.  float() of a
\* non-numeric field raises, the handler logs and the loop continues; an
\* empty symbol is skipped.
AlertsForMutNoSymbolTest(pos) ==
    IF ~pos.mapping THEN <<>>
    ELSE IF ~pos.Pnl.num THEN <<>>
    ELSE RsiAlerts(calculate_simulated_rsi(pos.Pnl))
            \o LosingTradeAlert(pos.Pnl.val)
            \o NoStopLossAlert(pos.Margin, pos.SLSet)
            \o HighProfitAlert(pos.Pnl.val)

\* lines 235-339: position.get raises AttributeError on an entry that is
\* no dict, float() raises ValueError on a non-numeric field, both before
\* the test of the symbol; then the rules
AlertsFor(pos) ==
    IF ~pos.mapping THEN <<>>
    ELSE IF ~pos.Pnl.num THEN <<>>
    ELSE IF pos.Symbol = "" THEN <<>>
    ELSE RsiAlerts(calculate_simulated_rsi(pos.Pnl))
            \o LosingTradeAlert(pos.Pnl.val)
            \o NoStopLossAlert(pos.Margin, pos.SLSet)
            \o HighProfitAlert(pos.Pnl.val)

Kinds(s) == {s[i] : i \in DOMAIN s}
Tag(kinds, symbol) == [i \in DOMAIN kinds |-> [type |-> kinds[i], symbol |-> symbol]]

(***************************************************************************)
(* Raw records of the exchanges.  One schema for the three platforms:      *)
(*   entry    avgPrice / entryPrice          mark   markPrice              *)
(*   notional positionValue / notional (dollars)                           *)
(*   upnl     unrealizedProfit / unrealizedPnl (dollars)                   *)
(*   initialMargin  Kraken only (dollars); leverage 0 is "0 or None"       *)
(***************************************************************************)
Sides == {"LONG", "SHORT"}
ExportSymbol == "BTC"

\* the last set holds the records whose unrealizedProfit float() rejects
RawBingX ==
    [side : Sides, entry : {100}, mark : {90, 135}, leverage : {0, 1, 3},
     notional : {50}, initialMargin : {0}, upnl : {Num(10)}]
    \cup
    [side : Sides, entry : {100}, mark : {135}, leverage : {1},
     notional : {50}, initialMargin : {0}, upnl : {NonNumeric}]

RawBlofin ==
    [side : Sides, entry : {100}, mark : {90}, leverage : {2},
     notional : {200}, initialMargin : {0}, upnl : {Num(10)}]

RawKraken ==
    [side : Sides, entry : {100}, mark : {90}, leverage : {0, 2},
     notional : {200}, initialMargin : {0, 40}, upnl : {Num(10)}]

\* records with a zero in a field that is a divisor of a derived field:
\* entry price, mark price, leverage, position value
ZeroBingX ==
    [side : {"LONG"}, entry : {0, 100}, mark : {0, 95}, leverage : {0, 1},
     notional : {0, 50}, initialMargin : {0}, upnl : {Num(10)}]

ZeroKraken ==
    [side : {"LONG"}, entry : {100}, mark : {0, 95}, leverage : {0, 2},
     notional : {0, 200}, initialMargin : {0}, upnl : {Num(10)}]

\* records whose PnL % is at and next to the two trend thresholds:
\* 30, 30.01 (31 for Kraken), -20, -20.01 (-21), and 0
TrendBingX ==
    [side : {"LONG"}, entry : {10000}, mark : {13000, 13001, 8000, 7999, 10000},
     leverage : {1}, notional : {50}, initialMargin : {0}, upnl : {Num(10)}]

TrendKraken ==
    [side : {"LONG"}, entry : {100}, mark : {90}, leverage : {2},
     notional : {200}, initialMargin : {100},
     upnl : {Num(30), Num(31), Num(-20), Num(-21), Num(0)}]

NoRaw ==
    [side |-> "LONG", entry |-> 0, mark |-> 0, leverage |-> 0,
     notional |-> 0, initialMargin |-> 0, upnl |-> NonNumeric]

(***************************************************************************)
(* Open orders and the symbol -> {SL, TP} maps.  0 stands for None, '' and *)
(* a missing key: every reader tests the value for truth or coerces it.    *)
(***************************************************************************)
OrderSymbols == {"BTC", "ETH"}
BingXOrders ==
    { [symbol |-> "BTC", type |-> "STOP_MARKET", stopPrice |-> 95],
      [symbol |-> "BTC", type |-> "STOP", stopPrice |-> 85],
      [symbol |-> "BTC", type |-> "TAKE_PROFIT_MARKET", stopPrice |-> 110],
      [symbol |-> "ETH", type |-> "STOP_MARKET", stopPrice |-> 95] }
KrakenOrders ==
    { [symbol |-> "BTC", type |-> "stop-loss", stopPrice |-> 95],
      [symbol |-> "BTC", type |-> "stop-loss-limit", stopPrice |-> 85],
      [symbol |-> "BTC", type |-> "take-profit", stopPrice |-> 110] }

OrderLists(orders) ==
    UNION {[1..n -> orders] : n \in 0..MaxOrders}

EmptyMap == [s \in OrderSymbols |-> [SL |-> 0, TP |-> 0]]

\* lines 875-878: the direct order types of BingX
BingXJoinOne(map, order) ==
    IF order.type \in {"STOP_MARKET", "STOP"} /\ order.stopPrice # 0
        THEN [map EXCEPT ![order.symbol].SL = order.stopPrice]
    ELSE IF order.type \in {"TAKE_PROFIT_MARKET", "TAKE_PROFIT"} /\ order.stopPrice # 0
        THEN [map EXCEPT ![order.symbol].TP = order.stopPrice]
    ELSE map

\* lines 1168-1171: 'stop' in type.lower(), else 'profit' in type.lower()
KrakenJoinOne(map, order) ==
    IF order.type \in {"stop-loss", "stop-loss-limit"}
        THEN [map EXCEPT ![order.symbol].SL = order.stopPrice]
    ELSE IF order.type \in {"take-profit", "take-profit-limit"}
        THEN [map EXCEPT ![order.symbol].TP = order.stopPrice]
    ELSE map

\* lines 848-882: for order in orders_data
RECURSIVE BingXSlTpMap(_, _)
BingXSlTpMap(orders, map) ==
    IF orders = <<>> THEN map
    ELSE BingXSlTpMap(Tail(orders), BingXJoinOne(map, Head(orders)))

\* lines 1161-1171: for order in kraken_orders
RECURSIVE KrakenSlTpMap(_, _)
KrakenSlTpMap(orders, map) ==
    IF orders = <<>> THEN map
    ELSE KrakenSlTpMap(Tail(orders), KrakenJoinOne(map, Head(orders)))

(***************************************************************************)
(* export_positions: one row                                               *)
(***************************************************************************)
\* lines 967-981 (BingX), 1089-1103 (Blofin), 1223-1237 (Kraken): the
\* distance from the mark price to a trigger, in hundredths of a percent
Distance(side, trigger, mark) ==
    IF trigger > 0 /\ mark > 0
        THEN IF side = "LONG" THEN Pct2(trigger - mark, mark)
             ELSE Pct2(mark - trigger, mark)
    ELSE 0

\* line 973: the LONG take-profit distance of BingX is multiplied by 10
BingXDistanceTP(side, trigger, mark) ==
    IF trigger > 0 /\ mark > 0
        THEN IF side = "LONG" THEN RoundDiv((trigger - mark) * 1000, mark)
             ELSE Pct2(mark - trigger, mark)
    ELSE 0

\* lines 772-795: None without SL or TP and when the mark price is at the
\* stop; else distance to TP / distance to SL, in hundredths
calculate_risk_reward(mark_price, sl_price, tp_price) ==
    IF sl_price = 0 \/ tp_price = 0 THEN NonNumeric
    ELSE IF Abs(mark_price - sl_price) = 0 THEN NonNumeric
    ELSE Num(RoundDiv(Abs(tp_price - mark_price) * 100, Abs(mark_price - sl_price)))

TrendStatusMutInclusive(pnl) ==
    IF pnl >= 3000 THEN "Uptrend"
    ELSE IF pnl <= -2000 THEN "Downtrend"
    ELSE "Sideways"

\* lines 983-989, 1105-1111, 1239-1245
TrendStatus(pnl) ==
    IF pnl > 3000 THEN "Uptrend"
    ELSE IF pnl < -2000 THEN "Downtrend"
    ELSE "Sideways"

\* lines 991-995, 1113-1117, 1247-1251
RiskFlagNew(sl_numeric, margin_size) ==
    IF sl_numeric = 0 /\ margin_size > Dollars(100) THEN "High Risk" ELSE "OK"

Mark(b) == IF b THEN "SET" ELSE "UNSET"

\* locals of export_positions that one BingX iteration can leave to the
\* next: they are assigned inside the try of lines 902-935 only
UnboundLocals == [bound |-> FALSE, margin_size |-> 0, mark_price_float |-> 0]

\* lines 902-940: float(unrealizedProfit) raising ValueError leaves
\* margin_size and mark_price_float as the previous iteration set them
BingXLocals(p, lcl) ==
    IF p.upnl.num
        THEN [bound |-> TRUE,
              margin_size |->
                  IF p.leverage > 0
                      THEN RoundDiv(p.notional * 100, p.leverage) * Cent
                  ELSE 0,
              mark_price_float |-> p.mark]
    ELSE lcl

\* line 922
BingXPnlPct(p) ==
    IF p.upnl.num /\ p.notional # 0 THEN Pct2(p.upnl.val, p.notional) ELSE 0

\* lines 925-932, 938-940: no account is taken of the side
BingXUnrealizedPct(p) ==
    IF p.upnl.num /\ p.entry > 0 /\ p.leverage > 0
        THEN Pct2((p.mark - p.entry) * p.leverage, p.entry)
    ELSE 0

\* lines 888-1026: the row of one BingX position; lcl are the locals after
\* the try of this iteration
BingXRow(p, map, lcl) ==
    LET sl == map[ExportSymbol].SL
        tp == map[ExportSymbol].TP
        upct == BingXUnrealizedPct(p)
    IN  [Platform |-> "BingX", Symbol |-> ExportSymbol, Side |-> p.side,
         Entry |-> p.entry, Mark |-> p.mark, Leverage |-> p.leverage,
         Margin |-> lcl.margin_size,
         PnlPct |-> BingXPnlPct(p), UPnlPct |-> upct,
         SL |-> sl, TP |-> tp,
         DistTP |-> BingXDistanceTP(p.side, tp, lcl.mark_price_float),
         DistSL |-> Distance(p.side, sl, lcl.mark_price_float),
         TPSet |-> Mark(tp > 0), SLSet |-> Mark(sl > 0),
         Trend |-> TrendStatus(upct),
         RiskReward |-> calculate_risk_reward(p.mark, sl, tp),
         RiskFlagNew |-> RiskFlagNew(sl, lcl.margin_size),
         raw |-> p, parsed |-> p.upnl.num]

\* lines 1187-1201: leverage and notional fall back to 1, the reported
\* initial margin is preferred to notional / leverage
KrakenLeverage(pos) == IF pos.leverage # 0 THEN pos.leverage ELSE 1
KrakenNotional(pos) == IF pos.notional # 0 THEN pos.notional ELSE 1
KrakenMarginMutNoInitial(pos) ==
    IF KrakenLeverage(pos) > 0
        THEN Abs(Dollars(KrakenNotional(pos)) \div KrakenLeverage(pos))
    ELSE 0

KrakenMargin(pos) ==
    IF pos.initialMargin > 0 THEN Dollars(pos.initialMargin)
    ELSE IF KrakenLeverage(pos) > 0
        THEN Abs(Dollars(KrakenNotional(pos)) \div KrakenLeverage(pos))
    ELSE 0

\* line 1204
KrakenPnlPct(pos) ==
    IF KrakenMargin(pos) > 0
        THEN Pct2(Dollars(pos.upnl.val), KrakenMargin(pos))
    ELSE 0

\* lines 1173-1284: the row of one Kraken position
KrakenRow(pos, map) ==
    LET sl == map[ExportSymbol].SL
        tp == map[ExportSymbol].TP
        pct == KrakenPnlPct(pos)
    IN  [Platform |-> "Kraken", Symbol |-> ExportSymbol, Side |-> pos.side,
         Entry |-> pos.entry, Mark |-> pos.mark,
         Leverage |-> KrakenLeverage(pos),
         Margin |-> KrakenMargin(pos),
         PnlPct |-> pct, UPnlPct |-> pct,
         SL |-> sl, TP |-> tp,
         DistTP |-> Distance(pos.side, tp, pos.mark),
         DistSL |-> Distance(pos.side, sl, pos.mark),
         TPSet |-> Mark(tp > 0), SLSet |-> Mark(sl > 0),
         Trend |-> TrendStatus(pct),
         RiskReward |-> calculate_risk_reward(pos.mark, sl, tp),
         RiskFlagNew |-> RiskFlagNew(sl, KrakenMargin(pos)),
         raw |-> pos, parsed |-> TRUE]

(***************************************************************************)
(* export_positions: the DataFrame columns added after the loops           *)
(***************************************************************************)
RECURSIVE SumMargin(_)
SumMargin(rows) ==
    IF rows = <<>> THEN 0 ELSE Head(rows).Margin + SumMargin(Tail(rows))

\* lines 1300-1306
MarginPctOfPortfolio(x, total_margin) ==
    IF total_margin > 0 THEN Pct2(x, total_margin) ELSE 0

\* lines 1309-1319
classify_tp_sl(tp, sl) ==
    IF tp > 0 /\ sl > 0 THEN "Both TP & SL set"
    ELSE IF tp > 0 /\ sl = 0 THEN "Only TP set"
    ELSE IF tp = 0 /\ sl > 0 THEN "Only SL set"
    ELSE "Neither set"

flag_high_risk_tradesMutOrder(margin_pct, sl) ==
    IF margin_pct > 2500 THEN "LARGE POSITION"
    ELSE IF margin_pct > 1500 /\ ~(sl > 0) THEN "HIGH RISK - No SL"
    ELSE IF ~(sl > 0) THEN "No Stop Loss"
    ELSE "Managed Risk"

\* lines 1324-1336
flag_high_risk_trades(margin_pct, sl) ==
    IF margin_pct > 1500 /\ ~(sl > 0) THEN "HIGH RISK - No SL"
    ELSE IF margin_pct > 2500 THEN "LARGE POSITION"
    ELSE IF ~(sl > 0) THEN "No Stop Loss"
    ELSE "Managed Risk"

\* lines 1290-1338
Enrich(rows) ==
    [i \in DOMAIN rows |->
        LET pct == MarginPctOfPortfolio(rows[i].Margin, SumMargin(rows))
        IN  [row |-> rows[i],
             MarginPct |-> pct,
             TpSlStatus |-> classify_tp_sl(rows[i].TP, rows[i].SL),
             RiskFlag |-> flag_high_risk_trades(pct, rows[i].SL)]]

\* the keys analyze_trading_conditions reads from a position, taken from
\* the columns of the same name of an exported row
RowPosition(r) ==
    [Symbol |-> r.row.Symbol, Pnl |-> Num(r.row.UPnlPct),
     Margin |-> r.row.Margin, SLSet |-> r.row.SLSet, mapping |-> TRUE]

(***************************************************************************)
(* Snapshot files                                                          *)
(***************************************************************************)
\* cleanup_old_files(keep_count=3), automated_trading_alerts.py line 1516
KeepCount == 3

\* main.py lines 1341-1344: strftime("%Y%m%d_%I%M_%p") keeps the minute
\* and drops what is below it
Stamp(t) == t \div TicksPerMinute
Filename(t, fmt) == [stamp |-> Stamp(t), fmt |-> fmt]

OfFormat(fs, fmt) == {f \in fs : f.name.fmt = fmt}

\* main.py lines 430-456: every positions_*.csv but current_filename goes
cleanup_old_csv_files(fs, current_filename) ==
    IF Cardinality(OfFormat(fs, "csv")) <= 1 THEN fs
    ELSE {f \in fs : f.name.fmt # "csv" \/ f.name = current_filename}

Range(seq) == {seq[i] : i \in DOMAIN seq}

\* files.sort(key=mtime): the orders the sort can leave the files in,
\* oldest first; files of equal mtime stay in the order of glob
SortedByMtime(fs) ==
    {seq \in [1..Cardinality(fs) -> fs] :
        /\ Range(seq) = fs
        /\ \A i, j \in DOMAIN seq : i < j => seq[i].mtime <= seq[j].mtime}

\* if len(files) > keep_count: files[:-keep_count], of the sorted list;
\* the slice [:-0] is the empty list
FilesToDelete(sorted, keep_count) ==
    IF Len(sorted) > keep_count /\ keep_count # 0
        THEN SubSeq(sorted, 1, Len(sorted) - keep_count)
    ELSE <<>>

\* the files of a list that the loop reaches before os.remove raises on
\* the file failing
RemovedBefore(seq, failing) ==
    {seq[i] : i \in {k \in DOMAIN seq : \A j \in 1..k : seq[j] # failing}}

\* automated_trading_alerts.py lines 80-110, core_functions.py lines
\* 60-88: the CSV loop, then the JSON loop, inside one try; an os.remove
\* that raises ends the call
cleanup_old_files(fs, keep_count, csv_files, json_files, failing) ==
    LET csv_delete == FilesToDelete(csv_files, keep_count)
        json_delete == FilesToDelete(json_files, keep_count)
    IN  IF failing \in Range(csv_delete)
            THEN fs \ RemovedBefore(csv_delete, failing)
        ELSE (fs \ Range(csv_delete)) \ RemovedBefore(json_delete, failing)

\* the time of a write: later than every time recorded in the directory
Newest(fs) ==
    IF fs = {} THEN 0
    ELSE CHOOSE t \in {f.mtime : f \in fs} \cup {f.ctime : f \in fs} :
            \A f \in fs : f.mtime <= t /\ f.ctime <= t

\* Times are counted in days from the epoch (a Thursday) and stay inside
\* its first month, so that time.ctime(t), "Www Mmm dd hh:mm:ss yyyy",
\* differs between two times in the weekday name and the day only.
WeekdayNames == <<"Thu", "Fri", "Sat", "Sun", "Mon", "Tue", "Wed">>
ctime(t) == [weekday |-> WeekdayNames[(t % 7) + 1], day |-> t]

\* the place of a weekday name in the order of strings
AlphaRank(w) ==
    CASE w = "Fri" -> 0
      [] w = "Mon" -> 1
      [] w = "Sat" -> 2
      [] w = "Sun" -> 3
      [] w = "Thu" -> 4
      [] w = "Tue" -> 5
      [] w = "Wed" -> 6

\* a < b for the strings that time.ctime returns
StrLess(a, b) ==
    \/ AlphaRank(a.weekday) < AlphaRank(b.weekday)
    \/ a.weekday = b.weekday /\ a.day < b.day

NoFile == [name |-> [stamp |-> 0, fmt |-> "none"], mtime |-> 0, ctime |-> 0, content |-> 0]

\* automated_trading_alerts.py lines 113-128: the files max() can return;
\* among files of equal key the order of glob decides
find_latest_positions_csv(fs) ==
    IF OfFormat(fs, "csv") = {} THEN {NoFile}
    ELSE {f \in OfFormat(fs, "csv") :
            \A g \in OfFormat(fs, "csv") : ~StrLess(ctime(f.mtime), ctime(g.mtime))}

\* core_functions.py lines 16-35: JSON first, CSV next, by os.path.getctime
LatestByCtime(fs) == {f \in fs : \A g \in fs : g.ctime <= f.ctime}
get_latest_positions_file(fs) ==
    IF OfFormat(fs, "json") # {} THEN LatestByCtime(OfFormat(fs, "json"))
    ELSE IF OfFormat(fs, "csv") # {} THEN LatestByCtime(OfFormat(fs, "csv"))
    ELSE {NoFile}

\* core_functions.py lines 37-58: the file whose records the call
\* returns; no file, the empty list
load_positions_data(fs) == get_latest_positions_file(fs)

\* the directories a call can find: n files of a format are numbered
\* 1 .. n, each with its modification day; the metadata of at most one
\* file (chmod, rename) changed after every write; the content of a file
\* is named by the save that wrote it, negative for the files found
ExistingFiles(fmt, n, mtimes, touched) ==
    {[name |-> [stamp |-> i, fmt |-> fmt], mtime |-> mtimes[i],
      ctime |-> IF touched = <<fmt, i>> THEN MaxMtime + 1 ELSE mtimes[i],
      content |-> IF fmt = "csv" THEN 0 - i ELSE 0 - (MaxCsv + i)] : i \in 1..n}
Directories ==
    UNION {UNION {UNION {
        {ExistingFiles("csv", nc, mc, touched) \cup ExistingFiles("json", nj, mj, touched) :
            touched \in {<<"none", 0>>} \cup ({"csv"} \X (1..nc)) \cup ({"json"} \X (1..nj))} :
        mj \in [1..nj -> 0..MaxMtime]} :
        mc \in [1..nc -> 0..MaxMtime]} :
        nc \in 0..MaxCsv, nj \in 0..MaxJson}

(***************************************************************************)
(* The cycle of run_trading_analysis                                       *)
(***************************************************************************)
Exchanges == <<"BingX", "Kraken", "Blofin">>

\* the entries of the 'positions' of an answer: unrealizedPnl_percent 40
\* or 0, initialMargin (cost for Kraken) 200 or 50; size is read for
\* Kraken only: a number, 0 for a closed position, or no number.  stop
\* tells whether the position has a stop-loss order on its exchange; the
\* answer has no field for it.
Sizes(exchange) == IF exchange = "Kraken" THEN {Num(1), Num(0), NonNumeric} ELSE {Num(1)}
Reported(exchange) ==
    {[symbol |-> "BTC", pnl |-> 4000, margin |-> Dollars(200), size |-> sz,
      stop |-> FALSE] : sz \in Sizes(exchange)}
    \cup {[symbol |-> "BTC", pnl |-> 4000, margin |-> Dollars(200), size |-> Num(1),
            stop |-> TRUE],
           [symbol |-> "ETH", pnl |-> 0, margin |-> Dollars(50), size |-> Num(1),
            stop |-> FALSE]}

\* 'positions' is a list for BingX and Blofin and a dict keyed by the
\* symbol for Kraken (line 164), whose entries have different symbols
PositionLists(exchange) ==
    {ps \in UNION {[1..n -> Reported(exchange)] : n \in 0..MaxReported} :
        exchange = "Kraken" =>
            \A i, j \in DOMAIN ps : ps[i].symbol = ps[j].symbol => i = j}

\* what fetch_railway_api returns, lines 454-467: None (HTTP status not
\* 200, or an exception), or the JSON of the answer, with 'positions' or
\* without (an error message)
Responses(exchange) ==
    {[kind |-> "none", positions |-> <<>>], [kind |-> "error", positions |-> <<>>]}
    \cup {[kind |-> "ok", positions |-> ps] : ps \in PositionLists(exchange)}

\* lines 143-153, 162-172, 181-191: the dict made of one entry
LivePosition(exchange, pos) ==
    [Symbol |-> pos.symbol, Platform |-> exchange, Pnl |-> Num(pos.pnl),
     Margin |-> pos.margin, SLSet |-> "UNSET", mapping |-> TRUE]

\* lines 139-195: the loop over the entries of one answer, inside the try
\* of the exchange; float(size) of a Kraken entry that is no number raises
\* and ends the loop, the entries before it stay appended
RECURSIVE ExchangePositions(_, _)
ExchangePositions(exchange, entries) ==
    IF entries = <<>> THEN <<>>
    ELSE IF ~Head(entries).size.num THEN <<>>
    ELSE IF Head(entries).size.val = 0
        THEN ExchangePositions(exchange, Tail(entries))
    ELSE <<LivePosition(exchange, Head(entries))>>
            \o ExchangePositions(exchange, Tail(entries))

fetch_live_positionsMutAbort(resp) ==
    IF \E i \in DOMAIN Exchanges : resp[Exchanges[i]].kind # "ok" THEN <<>>
    ELSE ExchangePositions("BingX", resp["BingX"].positions)
            \o ExchangePositions("Kraken", resp["Kraken"].positions)
            \o ExchangePositions("Blofin", resp["Blofin"].positions)

\* lines 131-204: BingX, Kraken, Blofin, each in its own try; an answer
\* that is None or has no 'positions' adds nothing
fetch_live_positions(resp) ==
    ExchangePositions("BingX", resp["BingX"].positions)
        \o ExchangePositions("Kraken", resp["Kraken"].positions)
        \o ExchangePositions("Blofin", resp["Blofin"].positions)

\* analyze_trading_conditions over a list
RECURSIVE analyze_trading_conditions(_)
analyze_trading_conditions(positions) ==
    IF positions = <<>> THEN <<>>
    ELSE Tag(AlertsFor(Head(positions)), Head(positions).Symbol)
            \o analyze_trading_conditions(Tail(positions))

\* lines 503-552: None for no alerts, else a dict with these keys
prepare_alert_data(alert_list) ==
    IF alert_list = <<>> THEN [none |-> TRUE, keys |-> {}]
    ELSE [none |-> FALSE,
          keys |-> {"timestamp", "total_alerts", "alert_types", "alerts",
                    "summary_parts"}]

NoResponses == [e \in {"BingX", "Kraken", "Blofin"} |-> [kind |-> "none", positions |-> <<>>]]

(***************************************************************************)
(* Initial state                                                           *)
(***************************************************************************)
InitRsi ==
    /\ rsiArg = NonNumeric
    /\ rsiRet = 50000
    /\ rsiPrevArg = NonNumeric
    /\ rsiPrevRet = 50000

InitAlerts ==
    /\ apc = "idle"
    /\ alerts = <<>>
    /\ position = NoPosition
    /\ emitted = <<>>
    /\ batchLen = 0
    /\ returned = <<>>

InitExport ==
    /\ xpc = "idle"
    /\ sl_tp_map = EmptyMap
    /\ kraken_sl_tp_map = EmptyMap
    /\ loc = UnboundLocals
    /\ data = <<>>
    /\ skipped = 0
    /\ df = <<>>
    /\ dfAlerts = <<>>
    /\ orders_data = <<>>
    /\ kraken_orders = <<>>

InitStore ==
    /\ now = 0
    /\ files = {}
    /\ saves = 0
    /\ written = <<>>
    /\ overwritten = {}

NoCall == [op |-> "none", arg |-> 0, value |-> {NoFile}]

InitDir == ret = NoCall

\* no snapshot yet, writer and reader at rest
InitConc ==
    /\ disk = [k \in 1..MaxWrites |-> "absent"]
    /\ wpc = "idle"
    /\ wfile = 0
    /\ stale = {}
    /\ rpc = "idle"
    /\ listing = {}
    /\ latest_file = 0
    /\ outcome = "none"

\* what a digest job did: it has not run, it returned without sending
\* (weekend, no digest, marked as delivered), or it called
\* send_discord_alert, which returned True or False
NotRun == [ran |-> FALSE, digest |-> FALSE, sent |-> FALSE, ok |-> FALSE]

InitDigest ==
    /\ day = 1
    /\ weekday = TRUE
    /\ dpc = "main"
    /\ digest_delivery_tracker = {}
    /\ mainJob = NotRun
    /\ backupJob = NotRun

InitCycle ==
    /\ cpc = "idle"
    /\ responses = NoResponses
    /\ all_positions = <<>>
    /\ cycle_alerts = <<>>
    /\ saved = <<>>
    /\ sent = <<>>

Init ==
    /\ InitRsi /\ InitAlerts /\ InitExport /\ InitStore /\ InitDir /\ InitCycle
    /\ InitConc /\ InitDigest

\* the directory functions are called on any directory
InitDirectory ==
    /\ InitRsi /\ InitAlerts /\ InitExport /\ InitDir /\ InitCycle /\ InitConc
    /\ InitDigest
    /\ now = 0
    /\ files \in Directories
    /\ saves = 0
    /\ written = <<>>
    /\ overwritten = {}

(***************************************************************************)
(* Actions: calculate_simulated_rsi                                        *)
(***************************************************************************)
CallRsi(x) ==
    /\ rsiPrevArg' = rsiArg
    /\ rsiPrevRet' = rsiRet
    /\ rsiArg' = x
    /\ rsiRet' = calculate_simulated_rsi(x)
    /\ UNCHANGED <<alertVars, exportVars, storeVars, dirVars, cycleVars, concVars, digestVars>>

NextRsi == \E x \in PnlInputs : CallRsi(x)

(***************************************************************************)
(* Actions: analyze_trading_conditions(positions)                          *)
(***************************************************************************)
\* line 226: alerts = []
AnalyzeCall ==
    /\ apc \in {"idle", "raised"}
    /\ apc' = "loop"
    /\ alerts' = <<>>
    /\ position' = NoPosition
    /\ emitted' = <<>>
    /\ batchLen' = 0
    /\ returned' = <<>>
    /\ UNCHANGED <<rsiVars, exportVars, storeVars, dirVars, cycleVars, concVars, digestVars>>

AnalyzePositionMutDedup(pos) ==
    /\ apc = "loop"
    /\ batchLen < MaxBatch
    /\ position' = pos
    /\ emitted' = SelectSeq(AlertsFor(pos),
                    LAMBDA k : \A i \in DOMAIN alerts : alerts[i].type # k)
    /\ alerts' = alerts \o Tag(emitted', pos.Symbol)
    /\ batchLen' = batchLen + 1
    /\ apc' = IF pos.mapping THEN "loop" ELSE "raised"
    /\ UNCHANGED <<returned, rsiVars, exportVars, storeVars, dirVars, cycleVars, concVars, digestVars>>

\* lines 234-339: one iteration of the loop
AnalyzePosition(pos) ==
    /\ apc = "loop"
    /\ batchLen < MaxBatch
    /\ position' = pos
    /\ emitted' = AlertsFor(pos)
    /\ alerts' = alerts \o Tag(AlertsFor(pos), pos.Symbol)
    /\ batchLen' = batchLen + 1
    \* lines 335-339: the handler reads position.get('Symbol', 'unknown')
    \* for its message; on an entry that is no dict this raises again,
    \* outside any try, and the call ends with the exception
    /\ apc' = IF pos.mapping THEN "loop" ELSE "raised"
    /\ UNCHANGED <<returned, rsiVars, exportVars, storeVars, dirVars, cycleVars, concVars, digestVars>>

\* lines 228-230 (empty list) and 341-342
AnalyzeReturn ==
    /\ apc = "loop"
    /\ apc' = "idle"
    /\ returned' = alerts
    /\ UNCHANGED <<alerts, position, emitted, batchLen, rsiVars, exportVars, storeVars, dirVars, cycleVars, concVars, digestVars>>

NextAlerts ==
    \/ AnalyzeCall
    \/ \E pos \in PositionInputs \cup {NotAMapping} : AnalyzePosition(pos)
    \/ AnalyzeReturn

(***************************************************************************)
(* Actions: export_positions                                               *)
(***************************************************************************)
\* lines 798-884: the fetches and the BingX symbol -> SL/TP map
ExportFetch(orders) ==
    /\ xpc = "idle"
    /\ xpc' = "bingx"
    /\ orders_data' = orders
    /\ kraken_orders' = <<>>
    /\ sl_tp_map' = BingXSlTpMap(orders, EmptyMap)
    /\ kraken_sl_tp_map' = EmptyMap
    /\ loc' = UnboundLocals
    /\ data' = <<>>
    /\ skipped' = 0
    /\ df' = <<>>
    /\ dfAlerts' = <<>>
    /\ UNCHANGED <<rsiVars, alertVars, storeVars, dirVars, cycleVars, concVars, digestVars>>

\* lines 888-1026: one BingX position.  When float() raises in the first
\* iteration margin_size and mark_price_float are unbound and the row
\* cannot be built: UnboundLocalError leaves export_positions.
ProcessBingX(p) ==
    /\ xpc = "bingx"
    /\ Len(data) + skipped < MaxRows
    /\ LET after == BingXLocals(p, loc)
       IN  IF after.bound
               THEN /\ data' = Append(data, BingXRow(p, sl_tp_map, after))
                    /\ loc' = after
                    /\ xpc' = xpc
           ELSE /\ xpc' = "unbound"
                /\ UNCHANGED <<data, loc>>
    /\ orders_data' = <<>>
    /\ UNCHANGED <<sl_tp_map, kraken_sl_tp_map, skipped, df, dfAlerts, kraken_orders>>
    /\ UNCHANGED <<rsiVars, alertVars, storeVars, dirVars, cycleVars, concVars, digestVars>>

\* lines 1028-1043: the BingX loop is over; its map and locals are not
\* read again
BeginBlofin ==
    /\ xpc = "bingx"
    /\ xpc' = "blofin"
    /\ sl_tp_map' = EmptyMap
    /\ orders_data' = <<>>
    /\ loc' = UnboundLocals
    /\ UNCHANGED <<kraken_sl_tp_map, data, skipped, df, dfAlerts, kraken_orders>>
    /\ UNCHANGED <<rsiVars, alertVars, storeVars, dirVars, cycleVars, concVars, digestVars>>

\* lines 1045-1154: one Blofin position.  The row literal reads
\* initial_margin (line 1133), a local that only the Kraken loop assigns
\* (line 1194): UnboundLocalError, caught at line 1152, and the position is
\* left out.
ProcessBlofin(pos) ==
    /\ xpc = "blofin"
    /\ Len(data) + skipped < MaxRows
    /\ skipped' = skipped + 1
    /\ UNCHANGED <<xpc, sl_tp_map, kraken_sl_tp_map, loc, data, df, dfAlerts>>
    /\ UNCHANGED <<orders_data, kraken_orders>>
    /\ UNCHANGED <<rsiVars, alertVars, storeVars, dirVars, cycleVars, concVars, digestVars>>

\* lines 1156-1171: kraken_positions is not empty; the Kraken
\* symbol -> SL/TP map is built
BeginKraken(orders) ==
    /\ xpc = "blofin"
    /\ Len(data) + skipped < MaxRows
    /\ xpc' = "kraken"
    /\ kraken_orders' = orders
    /\ kraken_sl_tp_map' = KrakenSlTpMap(orders, EmptyMap)
    /\ UNCHANGED <<sl_tp_map, loc, data, skipped, df, dfAlerts, orders_data>>
    /\ UNCHANGED <<rsiVars, alertVars, storeVars, dirVars, cycleVars, concVars, digestVars>>

\* line 1157: kraken_positions is empty
NoKraken ==
    /\ xpc = "blofin"
    /\ xpc' = "frame"
    /\ UNCHANGED <<sl_tp_map, kraken_sl_tp_map, loc, data, skipped, df, dfAlerts>>
    /\ UNCHANGED <<orders_data, kraken_orders>>
    /\ UNCHANGED <<rsiVars, alertVars, storeVars, dirVars, cycleVars, concVars, digestVars>>

\* lines 1173-1288: one Kraken position
ProcessKraken(pos) ==
    /\ xpc \in {"kraken", "krakenloop"}
    /\ Len(data) + skipped < MaxRows
    /\ xpc' = "krakenloop"
    /\ data' = Append(data, KrakenRow(pos, kraken_sl_tp_map))
    /\ kraken_orders' = <<>>
    /\ UNCHANGED <<sl_tp_map, kraken_sl_tp_map, loc, skipped, df, dfAlerts, orders_data>>
    /\ UNCHANGED <<rsiVars, alertVars, storeVars, dirVars, cycleVars, concVars, digestVars>>

\* lines 1290-1338: the DataFrame and its derived columns.  A DataFrame of
\* no rows has no column 'TP (Take Profit)': line 1297 raises KeyError.
Finalize ==
    /\ xpc \in {"krakenloop", "frame"}
    /\ IF data = <<>>
           THEN /\ xpc' = "crashed"
                /\ df' = df
       ELSE /\ xpc' = "done"
            /\ df' = Enrich(data)
    /\ kraken_sl_tp_map' = EmptyMap
    /\ kraken_orders' = <<>>
    /\ UNCHANGED <<sl_tp_map, loc, data, skipped, dfAlerts, orders_data>>
    /\ UNCHANGED <<rsiVars, alertVars, storeVars, dirVars, cycleVars, concVars, digestVars>>

\* line 1346: df.to_csv(filename) raises (disk full, directory not
\* writable); no handler is around it in export_positions nor around the
\* call of line 1396, so the run ends there and its frame is gone
SnapshotWriteFails ==
    /\ xpc = "done"
    /\ xpc' = "writefailed"
    /\ df' = <<>>
    /\ UNCHANGED <<sl_tp_map, kraken_sl_tp_map, loc, data, skipped, dfAlerts>>
    /\ UNCHANGED <<orders_data, kraken_orders>>
    /\ UNCHANGED <<rsiVars, alertVars, storeVars, dirVars, cycleVars, concVars, digestVars>>

\* the alert rule engine applied to the exported rows
AnalyzeSnapshot ==
    /\ xpc = "done"
    /\ xpc' = "analyzed"
    /\ dfAlerts' = [i \in DOMAIN df |-> AlertsFor(RowPosition(df[i]))]
    /\ UNCHANGED <<sl_tp_map, kraken_sl_tp_map, loc, data, skipped, df>>
    /\ UNCHANGED <<orders_data, kraken_orders>>
    /\ UNCHANGED <<rsiVars, alertVars, storeVars, dirVars, cycleVars, concVars, digestVars>>

\* line 1396: export_positions() has returned or raised; nothing of the run
\* is kept but the files it wrote
ExportEnd ==
    /\ xpc \in {"analyzed", "crashed", "unbound", "writefailed"}
    /\ xpc' = "idle"
    /\ sl_tp_map' = EmptyMap
    /\ kraken_sl_tp_map' = EmptyMap
    /\ loc' = UnboundLocals
    /\ data' = <<>>
    /\ skipped' = 0
    /\ df' = <<>>
    /\ dfAlerts' = <<>>
    /\ orders_data' = <<>>
    /\ kraken_orders' = <<>>
    /\ UNCHANGED <<rsiVars, alertVars, storeVars, dirVars, cycleVars, concVars, digestVars>>

NextExport ==
    \/ \E orders \in OrderLists(BingXOrders) : ExportFetch(orders)
    \/ \E p \in RawBingX : ProcessBingX(p)
    \/ BeginBlofin
    \/ \E pos \in RawBlofin : ProcessBlofin(pos)
    \/ \E orders \in OrderLists(KrakenOrders) : BeginKraken(orders)
    \/ NoKraken
    \/ \E pos \in RawKraken : ProcessKraken(pos)
    \/ Finalize
    \/ SnapshotWriteFails
    \/ AnalyzeSnapshot
    \/ ExportEnd

\* export_positions on records with zeros, with and without a stop and a
\* take-profit order of the symbol
ZeroOrders ==
    {<<>>,
     <<[symbol |-> "BTC", type |-> "STOP_MARKET", stopPrice |-> 95],
       [symbol |-> "BTC", type |-> "TAKE_PROFIT_MARKET", stopPrice |-> 110]>>}
ZeroKrakenOrders ==
    {<<>>,
     <<[symbol |-> "BTC", type |-> "stop-loss", stopPrice |-> 95],
       [symbol |-> "BTC", type |-> "take-profit", stopPrice |-> 110]>>}

NextZero ==
    \/ \E orders \in ZeroOrders : ExportFetch(orders)
    \/ \E p \in ZeroBingX : ProcessBingX(p)
    \/ BeginBlofin
    \/ \E pos \in RawBlofin : ProcessBlofin(pos)
    \/ \E orders \in ZeroKrakenOrders : BeginKraken(orders)
    \/ NoKraken
    \/ \E pos \in ZeroKraken : ProcessKraken(pos)
    \/ Finalize
    \/ SnapshotWriteFails
    \/ AnalyzeSnapshot
    \/ ExportEnd

\* export_positions on records at the trend thresholds
NextTrend ==
    \/ \E orders \in ZeroOrders : ExportFetch(orders)
    \/ \E p \in TrendBingX : ProcessBingX(p)
    \/ BeginBlofin
    \/ \E pos \in RawBlofin : ProcessBlofin(pos)
    \/ \E orders \in ZeroKrakenOrders : BeginKraken(orders)
    \/ NoKraken
    \/ \E pos \in TrendKraken : ProcessKraken(pos)
    \/ Finalize
    \/ SnapshotWriteFails
    \/ AnalyzeSnapshot
    \/ ExportEnd

(***************************************************************************)
(* Actions: the snapshot directory                                         *)
(***************************************************************************)
Tick ==
    /\ now < MaxClock
    /\ now' = now + 1
    /\ UNCHANGED <<files, saves, written, overwritten>>
    /\ UNCHANGED <<rsiVars, alertVars, exportVars, dirVars, cycleVars, concVars, digestVars>>

\* main.py lines 1340-1350: df.to_csv(filename) creates the file or
\* truncates the one of that name, then cleanup_old_csv_files(filename)
SaveSnapshot ==
    /\ saves < MaxSaves
    /\ LET filename == Filename(now, "csv")
           old == {f \in files : f.name = filename}
           file == [name |-> filename, mtime |-> Newest(files) + 1,
                    ctime |-> Newest(files) + 1, content |-> saves + 1]
       IN  /\ files' = cleanup_old_csv_files((files \ old) \cup {file}, filename)
           /\ written' = Append(written, filename)
           /\ overwritten' = overwritten \cup {f.content : f \in old}
    /\ saves' = saves + 1
    /\ UNCHANGED now
    /\ UNCHANGED <<rsiVars, alertVars, exportVars, dirVars, cycleVars, concVars, digestVars>>

\* automated_trading_alerts.py lines 1514-1516: step 7 of the alert cycle
CleanupOldFiles ==
    /\ \E csv_files \in SortedByMtime(OfFormat(files, "csv")),
          json_files \in SortedByMtime(OfFormat(files, "json")) :
        files' = cleanup_old_files(files, KeepCount, csv_files, json_files, NoFile)
    /\ UNCHANGED <<now, saves, written, overwritten>>
    /\ UNCHANGED <<rsiVars, alertVars, exportVars, dirVars, cycleVars, concVars, digestVars>>

NextStore ==
    \/ Tick
    \/ SaveSnapshot
    \/ CleanupOldFiles

(***************************************************************************)
(* Actions: calls of the functions that read or prune the directory; each  *)
(* behaviour follows one call made on one of the directories               *)
(***************************************************************************)
FindLatestCsv ==
    /\ ret.op = "none"
    /\ \E f \in find_latest_positions_csv(files) :
        ret' = [op |-> "find_latest_positions_csv", arg |-> 0, value |-> {f}]
    /\ UNCHANGED <<rsiVars, alertVars, exportVars, storeVars, cycleVars, concVars, digestVars>>

GetLatestFile ==
    /\ ret.op = "none"
    /\ \E f \in get_latest_positions_file(files) :
        ret' = [op |-> "get_latest_positions_file", arg |-> 0, value |-> {f}]
    /\ UNCHANGED <<rsiVars, alertVars, exportVars, storeVars, cycleVars, concVars, digestVars>>

\* cleanup_old_files(keep_count); the removal of the file failing, if it
\* is one of the files the call removes, raises OSError
CallCleanup(keep_count, failing) ==
    /\ ret.op = "none"
    /\ \E csv_files \in SortedByMtime(OfFormat(files, "csv")),
          json_files \in SortedByMtime(OfFormat(files, "json")) :
        /\ failing \in {NoFile} \cup Range(FilesToDelete(csv_files, keep_count))
                \cup Range(FilesToDelete(json_files, keep_count))
        /\ files' = cleanup_old_files(files, keep_count, csv_files, json_files, failing)
        /\ ret' = [op |-> "cleanup_old_files",
                   arg |-> [keep_count |-> keep_count, failing |-> failing,
                            before |-> files,
                            due |-> Range(FilesToDelete(csv_files, keep_count))
                                \cup Range(FilesToDelete(json_files, keep_count))],
                   value |-> {NoFile}]
    /\ UNCHANGED <<now, saves, written, overwritten>>
    /\ UNCHANGED <<rsiVars, alertVars, exportVars, cycleVars, concVars, digestVars>>

LoadPositions ==
    /\ ret.op = "none"
    /\ \E f \in load_positions_data(files) :
        ret' = [op |-> "load_positions_data", arg |-> 0, value |-> {f}]
    /\ UNCHANGED <<rsiVars, alertVars, exportVars, storeVars, cycleVars, concVars, digestVars>>

NextDirectory ==
    \/ FindLatestCsv
    \/ GetLatestFile
    \/ LoadPositions
    \/ ret.op = "none" /\ SaveSnapshot
    \/ \E keep_count \in 0..MaxKeep, failing \in files \cup {NoFile} :
        CallCleanup(keep_count, failing)

(***************************************************************************)
(* Actions: run_trading_analysis                                           *)
(***************************************************************************)
\* lines 1350-1354: step 1; with no position the cycle returns
CycleFetch(resp) ==
    /\ cpc = "idle"
    /\ responses' = resp
    /\ all_positions' = fetch_live_positions(resp)
    /\ cpc' = IF fetch_live_positions(resp) = <<>> THEN "done" ELSE "fetched"
    /\ cycle_alerts' = <<>>
    /\ saved' = <<>>
    /\ sent' = <<>>
    /\ UNCHANGED <<rsiVars, alertVars, exportVars, storeVars, dirVars, concVars, digestVars>>

\* lines 1358-1360: step 2
CycleAnalyze ==
    /\ cpc = "fetched"
    /\ cycle_alerts' = analyze_trading_conditions(all_positions)
    /\ cpc' = IF analyze_trading_conditions(all_positions) = <<>> THEN "done" ELSE "analyzed"
    /\ UNCHANGED <<responses, all_positions, saved, sent>>
    /\ UNCHANGED <<rsiVars, alertVars, exportVars, storeVars, dirVars, concVars, digestVars>>

\* lines 1367-1372 and 637-657: save_alerts_for_bot; the write of
\* latest_alerts.json succeeds or raises, and then the call returns False
CycleSave(written_ok) ==
    /\ cpc = "analyzed"
    /\ saved' = IF written_ok THEN cycle_alerts ELSE <<>>
    /\ cpc' = "saved"
    /\ UNCHANGED <<responses, all_positions, cycle_alerts, sent>>
    /\ UNCHANGED <<rsiVars, alertVars, exportVars, storeVars, dirVars, concVars, digestVars>>

\* lines 1374-1381: send_discord_alert is called with the portfolio
\* message if alert_data is not None and alert_data.get('message') is true
CycleDeliver ==
    /\ cpc = "saved"
    /\ LET alert_data == prepare_alert_data(cycle_alerts)
       IN  sent' = IF ~alert_data.none /\ "message" \in alert_data.keys
                       THEN cycle_alerts
                   ELSE <<>>
    /\ cpc' = "done"
    /\ UNCHANGED <<responses, all_positions, cycle_alerts, saved>>
    /\ UNCHANGED <<rsiVars, alertVars, exportVars, storeVars, dirVars, concVars, digestVars>>

\* the cycle has returned
CycleEnd ==
    /\ cpc = "done"
    /\ cpc' = "idle"
    /\ responses' = NoResponses
    /\ all_positions' = <<>>
    /\ cycle_alerts' = <<>>
    /\ saved' = <<>>
    /\ sent' = <<>>
    /\ UNCHANGED <<rsiVars, alertVars, exportVars, storeVars, dirVars, concVars, digestVars>>

NextCycle ==
    \/ /\ cpc = "idle"
       /\ \E resp \in [BingX : Responses("BingX"), Kraken : Responses("Kraken"),
                       Blofin : Responses("Blofin")] : CycleFetch(resp)
    \/ CycleAnalyze
    \/ \E written_ok \in BOOLEAN : CycleSave(written_ok)
    \/ CycleDeliver
    \/ CycleEnd

(***************************************************************************)
(* Actions: a writer and a reader on one directory.  positions_<k>.csv is  *)
(* the file of the k-th save; its modification time grows with k.  The     *)
(* system calls of the two processes interleave freely.                    *)
(***************************************************************************)
OnDisk == {k \in 1..MaxWrites : disk[k] # "absent"}

\* main.py line 1346: df.to_csv(filename) opens the new file for writing,
\* which creates it empty
WriterOpen ==
    /\ wpc = "idle"
    /\ wfile < MaxWrites
    /\ wfile' = wfile + 1
    /\ disk' = [disk EXCEPT ![wfile + 1] = "partial"]
    /\ wpc' = "writing"
    /\ UNCHANGED <<stale, rpc, listing, latest_file, outcome>>
    /\ UNCHANGED notConcVars

\* line 1346: the rows are written and the file is closed
WriterClose ==
    /\ wpc = "writing"
    /\ disk' = [disk EXCEPT ![wfile] = "complete"]
    /\ wpc' = "written"
    /\ UNCHANGED <<wfile, stale, rpc, listing, latest_file, outcome>>
    /\ UNCHANGED notConcVars

\* main.py lines 437-440: glob.glob("positions_*.csv"); nothing to do with
\* one file or none
CleanupGlob ==
    /\ wpc = "written"
    /\ stale' = IF Cardinality(OnDisk) <= 1 THEN {} ELSE OnDisk \ {wfile}
    /\ wpc' = "cleanup"
    /\ UNCHANGED <<disk, wfile, rpc, listing, latest_file, outcome>>
    /\ UNCHANGED notConcVars

\* lines 444-450: os.remove of one file that is not the current one
CleanupRemove(csv_file) ==
    /\ wpc = "cleanup"
    /\ csv_file \in stale
    /\ disk' = [disk EXCEPT ![csv_file] = "absent"]
    /\ stale' = stale \ {csv_file}
    /\ UNCHANGED <<wpc, wfile, rpc, listing, latest_file, outcome>>
    /\ UNCHANGED notConcVars

\* lines 452-453: the loop is over, export_positions returns
CleanupReturn ==
    /\ wpc = "cleanup"
    /\ stale = {}
    /\ wpc' = "idle"
    /\ UNCHANGED <<disk, wfile, stale, rpc, listing, latest_file, outcome>>
    /\ UNCHANGED notConcVars

\* crypto_news_alerts.py lines 746-749: glob.glob("positions_*.csv")
ReaderGlob ==
    /\ rpc = "idle"
    /\ listing' = OnDisk
    /\ latest_file' = 0
    /\ outcome' = IF OnDisk = {} THEN "nofiles" ELSE "none"
    /\ rpc' = IF OnDisk = {} THEN "returned" ELSE "globbed"
    /\ UNCHANGED <<disk, wpc, wfile, stale>>
    /\ UNCHANGED notConcVars

\* line 751: max(csv_files, key=os.path.getmtime); getmtime of a file
\* that is gone raises FileNotFoundError
ReaderPick ==
    /\ rpc = "globbed"
    /\ IF listing \subseteq OnDisk
           THEN /\ latest_file' = CHOOSE k \in listing : \A j \in listing : j <= k
                /\ outcome' = "none"
                /\ rpc' = "picked"
       ELSE /\ latest_file' = 0
            /\ outcome' = "missing"
            /\ rpc' = "returned"
    /\ UNCHANGED <<disk, wpc, wfile, stale, listing>>
    /\ UNCHANGED notConcVars

\* line 752: pd.read_csv(latest_file) opens the file and reads what is in
\* it at that moment
ReaderRead ==
    /\ rpc = "picked"
    /\ outcome' = CASE disk[latest_file] = "absent" -> "missing"
                    [] disk[latest_file] = "partial" -> "partial"
                    [] OTHER -> "complete"
    /\ rpc' = "returned"
    /\ UNCHANGED <<disk, wpc, wfile, stale, listing, latest_file>>
    /\ UNCHANGED notConcVars

\* lines 771-775: the symbols, or [] from the handler
ReaderReturn ==
    /\ rpc = "returned"
    /\ rpc' = "idle"
    /\ listing' = {}
    /\ latest_file' = 0
    /\ outcome' = "none"
    /\ UNCHANGED <<disk, wpc, wfile, stale>>
    /\ UNCHANGED notConcVars

NextConc ==
    \/ WriterOpen
    \/ WriterClose
    \/ CleanupGlob
    \/ \E csv_file \in 1..MaxWrites : CleanupRemove(csv_file)
    \/ CleanupReturn
    \/ ReaderGlob
    \/ ReaderPick
    \/ ReaderRead
    \/ ReaderReturn

(***************************************************************************)
(* Actions: the Sundown Digest jobs.  digest: get_sundown_digest returned  *)
(* an article; ok: the webhook answered 204, so send_discord_alert         *)
(* returned True.                                                          *)
(***************************************************************************)
\* lines 950-1011, scheduled at 23:00: the digest is sent and the day is
\* marked, whatever send_discord_alert returned
send_sundown_digest(digest, ok) ==
    /\ dpc = "main"
    /\ IF weekday /\ digest
           THEN /\ mainJob' = [ran |-> TRUE, digest |-> TRUE, sent |-> TRUE, ok |-> ok]
                /\ digest_delivery_tracker' = digest_delivery_tracker \cup {day}
       ELSE /\ mainJob' = [ran |-> TRUE, digest |-> digest, sent |-> FALSE, ok |-> FALSE]
            /\ UNCHANGED digest_delivery_tracker
    /\ dpc' = "backup"
    /\ UNCHANGED <<day, weekday, backupJob>>
    /\ UNCHANGED notDigestVars

\* lines 1016-1083, scheduled at 23:15: nothing is sent for a day that is
\* marked
send_sundown_digest_backup(digest, ok) ==
    /\ dpc = "backup"
    /\ IF day \notin digest_delivery_tracker /\ weekday /\ digest
           THEN /\ backupJob' = [ran |-> TRUE, digest |-> TRUE, sent |-> TRUE, ok |-> ok]
                /\ digest_delivery_tracker' = digest_delivery_tracker \cup {day}
       ELSE /\ backupJob' = [ran |-> TRUE, digest |-> digest, sent |-> FALSE, ok |-> FALSE]
            /\ UNCHANGED digest_delivery_tracker
    /\ dpc' = "night"
    /\ UNCHANGED <<day, weekday, mainJob>>
    /\ UNCHANGED notDigestVars

\* the next day
NextDay(is_weekday) ==
    /\ dpc = "night"
    /\ day < MaxDays
    /\ day' = day + 1
    /\ weekday' = is_weekday
    /\ dpc' = "main"
    /\ mainJob' = NotRun
    /\ backupJob' = NotRun
    /\ UNCHANGED digest_delivery_tracker
    /\ UNCHANGED notDigestVars

NextDigest ==
    \/ \E digest, ok \in BOOLEAN : send_sundown_digest(digest, ok)
    \/ \E digest, ok \in BOOLEAN : send_sundown_digest_backup(digest, ok)
    \/ \E is_weekday \in BOOLEAN : NextDay(is_weekday)

SpecRsi == Init /\ [][NextRsi]_vars
SpecAlerts == Init /\ [][NextAlerts]_vars
SpecExport == Init /\ [][NextExport]_vars
SpecStore == Init /\ [][NextStore]_vars
SpecDirectory == InitDirectory /\ [][NextDirectory]_vars
SpecCycle == Init /\ [][NextCycle]_vars
SpecConc == Init /\ [][NextConc]_vars
SpecZero == Init /\ [][NextZero]_vars
SpecDigest == Init /\ [][NextDigest]_vars
SpecTrend == Init /\ [][NextTrend]_vars

(***************************************************************************)
(* Claims                                                                  *)
(***************************************************************************)
AlertKinds == {"overbought", "oversold", "losing_trade", "no_stop_loss", "high_profit"}
Evaluated == batchLen > 0

\* C1: the alerts emitted for one position in one evaluation never hold
\* both an overbought and an oversold alert.
C1_OverboughtOversoldExclusive ==
    ~({"overbought", "oversold"} \subseteq Kinds(emitted))

\* an oversold alert emitted for a position deep in loss
C1_Witness ==
    /\ Evaluated
    /\ position.Pnl.num
    /\ position.Pnl.val < -1500
    /\ "oversold" \in Kinds(emitted)

\* C2: for a position with a non-empty symbol and numeric fields the alert
\* kinds emitted are exactly those of the rule table: overbought iff
\* rsi > 72; oversold iff rsi < 28 and no overbought; losing_trade iff
\* pnl < -8; no_stop_loss iff margin > 150 and the SL marker is not set;
\* high_profit iff pnl > 35; nothing else, and each kind at most once.
C2_RuleTable ==
    (Evaluated /\ position.Symbol # "" /\ position.Pnl.num) =>
        LET K == Kinds(emitted)
            pnl == position.Pnl.val
            rsi == calculate_simulated_rsi(position.Pnl)
        IN  /\ K \subseteq AlertKinds
            /\ Cardinality(K) = Len(emitted)
            /\ ("overbought" \in K) <=> (rsi > 72000)
            /\ ("oversold" \in K) <=> (rsi < 28000 /\ "overbought" \notin K)
            /\ ("losing_trade" \in K) <=> (pnl < -800)
            /\ ("no_stop_loss" \in K) <=>
                    (position.Margin > Dollars(150) /\ position.SLSet # "SET")
            /\ ("high_profit" \in K) <=> (pnl > 3500)

\* a position that fires three rules at once, at the margin just above 150
C2_Witness ==
    /\ Evaluated
    /\ position.Symbol # ""
    /\ position.Margin = Dollars(150) + Cent
    /\ Kinds(emitted) = {"overbought", "no_stop_loss", "high_profit"}

RsiRange(v) == IF v > 2500 THEN "up" ELSE IF v < -1500 THEN "down" ELSE "neutral"

\* C4: for a numeric pnl the simulated RSI lies in [15, 85] and, for two
\* arguments of the same range (pnl > 25, pnl < -15, between), the larger
\* argument never gets the smaller RSI; a non-numeric argument gives 50.
C4_RsiClampedMonotone ==
    /\ rsiArg.num => (15000 <= rsiRet /\ rsiRet <= 85000)
    /\ (/\ rsiArg.num
        /\ rsiPrevArg.num
        /\ RsiRange(rsiPrevArg.val) = RsiRange(rsiArg.val)
        /\ rsiPrevArg.val <= rsiArg.val) => rsiPrevRet <= rsiRet
    /\ ~rsiArg.num => rsiRet = 50000

\* two successive calls in the upper range, the second one clamped at 85
C4_Witness ==
    /\ rsiArg.num
    /\ rsiPrevArg.num
    /\ rsiPrevArg.val > 2500
    /\ rsiPrevArg.val < rsiArg.val
    /\ rsiPrevRet < 85000
    /\ rsiRet = 85000

(***************************************************************************)
(* Claims about export_positions                                           *)
(***************************************************************************)
\* the position of the scenario: BingX, LONG, entry 100, mark 135,
\* leverage 1, margin 50, no stop loss
Scenario(r) ==
    /\ r.row.Platform = "BingX"
    /\ r.row.parsed
    /\ r.row.Side = "LONG"
    /\ r.row.Entry = 100
    /\ r.row.Mark = 135
    /\ r.row.Leverage = 1
    /\ r.row.Margin = Dollars(50)
    /\ r.row.SL = 0

\* C3 as stated: the LONG position entry 100, mark 135, leverage 1,
\* margin 50, no stop loss has pnl_pct = 35, its evaluation emits a
\* high_profit alert and emits no no_stop_loss alert.
C3_ScenarioHighProfit ==
    \A i \in DOMAIN dfAlerts :
        Scenario(df[i]) =>
            /\ df[i].row.UPnlPct = 3500
            /\ "high_profit" \in Kinds(dfAlerts[i])
            /\ "no_stop_loss" \notin Kinds(dfAlerts[i])

\* C3 amended: that position has pnl_pct = 35 and its evaluation emits
\* neither a high_profit alert (the rule asks for pnl_pct strictly above
\* 35) nor a no_stop_loss alert.
C3_ScenarioNoHighProfit ==
    \A i \in DOMAIN dfAlerts :
        Scenario(df[i]) =>
            /\ df[i].row.UPnlPct = 3500
            /\ "high_profit" \notin Kinds(dfAlerts[i])
            /\ "no_stop_loss" \notin Kinds(dfAlerts[i])

\* the scenario position exported and evaluated
C3_Witness ==
    /\ xpc = "analyzed"
    /\ \E i \in DOMAIN dfAlerts : Scenario(df[i])

\* C5: the Risk Flag of every exported position is the first rule that
\* matches, in the order: HIGH RISK - No SL if margin % > 15 and no SL;
\* LARGE POSITION if margin % > 25; No Stop Loss if no SL; Managed Risk.
\* A position with margin % > 25 and no SL is HIGH RISK - No SL.
C5_RiskFlagPriority ==
    \A i \in DOMAIN df :
        LET pct == df[i].MarginPct
            noSL == df[i].row.SL = 0
            flag == df[i].RiskFlag
        IN  /\ (pct > 1500 /\ noSL) => flag = "HIGH RISK - No SL"
            /\ (pct > 2500 /\ ~noSL) => flag = "LARGE POSITION"
            /\ (pct <= 1500 /\ noSL) => flag = "No Stop Loss"
            /\ (pct <= 2500 /\ ~noSL) => flag = "Managed Risk"
            /\ (pct > 2500 /\ noSL) => flag # "LARGE POSITION"

\* a frame with a position above 25 % without SL next to one of 15 % to
\* 25 % without SL
C5_Witness ==
    /\ xpc = "done"
    /\ \E i, j \in DOMAIN df :
        /\ df[i].MarginPct > 2500
        /\ df[i].row.SL = 0
        /\ df[i].RiskFlag = "HIGH RISK - No SL"
        /\ df[j].MarginPct > 1500
        /\ df[j].MarginPct <= 2500
        /\ df[j].row.SL = 0
        /\ df[j].RiskFlag = "HIGH RISK - No SL"

C7_SideAwarePnl ==
    \A i \in DOMAIN data :
        LET r == data[i]
        IN  (r.parsed /\ r.Entry > 0 /\ r.Leverage > 0) =>
                /\ r.Side = "LONG" =>
                        r.UPnlPct = Pct2((r.Mark - r.Entry) * r.Leverage, r.Entry)
                /\ r.Side = "SHORT" =>
                        r.UPnlPct = Pct2((r.Entry - r.Mark) * r.Leverage, r.Entry)
                /\ (r.Side = "SHORT" /\ r.Mark < r.Entry) => r.UPnlPct > 0

\* C8: Distance to TP (%) and Distance to SL (%) of every exported position
\* are (trigger - mark) / mark * 100 for a LONG and
\* (mark - trigger) / mark * 100 for a SHORT, and 0 when the trigger is
\* unset; TP and SL, and the three platforms, use the same formula.
C8_DistanceFormula ==
    \A i \in DOMAIN data :
        LET r == data[i]
            gap(trigger) ==
                IF trigger = 0 THEN 0
                ELSE IF r.Side = "LONG" THEN Pct2(trigger - r.Mark, r.Mark)
                ELSE Pct2(r.Mark - trigger, r.Mark)
        IN  r.parsed =>
                /\ r.DistTP = gap(r.TP)
                /\ r.DistSL = gap(r.SL)

(***************************************************************************)
(* Claims about the snapshot files                                         *)
(***************************************************************************)
Stamps == {written[i].stamp : i \in DOMAIN written}
CsvContents == {f.content : f \in OfFormat(files, "csv")}

\* C9: after N + k saves (k >= 0) run through the save and cleanup paths
\* with keep_count = N = 3, exactly N snapshot files remain and they are
\* the N most recently written.  Stated for saves made in different
\* minutes, so that no save writes over the file of another.
C9_KeepsThreeLatest ==
    (saves >= KeepCount /\ Cardinality(Stamps) = saves) =>
        CsvContents = (saves - KeepCount + 1)..saves

\* C10: every save creates a new file: no save writes over the file that
\* an earlier save produced, the saves of one clock minute included.
C10_NeverOverwrites == overwritten = {}

(***************************************************************************)
(* Claims about the lookup and the pruning of snapshot files               *)
(***************************************************************************)
LatestByMtime(fs) == {f \in fs : \A g \in fs : g.mtime <= f.mtime}

\* C11: for every set of snapshot files with any modification times, the
\* lookup of the latest snapshot returns a file of greatest modification
\* time among the files of its format, and returns None only when there
\* is no file to return.
C11_LatestByModificationTime ==
    /\ ret.op = "find_latest_positions_csv" =>
        IF OfFormat(files, "csv") = {} THEN ret.value = {NoFile}
        ELSE ret.value \subseteq LatestByMtime(OfFormat(files, "csv"))
    /\ ret.op = "get_latest_positions_file" =>
        IF files = {} THEN ret.value = {NoFile}
        ELSE \E fmt \in {"csv", "json"} :
                ret.value \subseteq LatestByMtime(OfFormat(files, fmt))

\* C12: for every keep_count >= 0, 0 included, and every set of files,
\* after cleanup_old_files(keep_count) without a failing removal the files
\* left of each format are the min(keep_count, number of files) most
\* recently modified files of that format, whatever the files of the
\* other format are.
C12_KeepsMostRecentPerFormat ==
    (ret.op = "cleanup_old_files" /\ ret.arg.failing = NoFile) =>
        \A fmt \in {"csv", "json"} :
            LET before == OfFormat(ret.arg.before, fmt)
                after == OfFormat(files, fmt)
            IN  /\ after \subseteq before
                /\ Cardinality(after) = Min(ret.arg.keep_count, Cardinality(before))
                /\ \A f \in after, g \in before \ after : g.mtime <= f.mtime

\* C13: if the removal of one file fails during cleanup_old_files, every
\* other file that was due for removal, CSV or JSON, is removed by the
\* same call.
C13_FailureDoesNotAbortPruning ==
    (ret.op = "cleanup_old_files" /\ ret.arg.failing # NoFile) =>
        files \cap ret.arg.due = {ret.arg.failing}

\* C14: after a snapshot is saved, load_positions_data returns the
\* positions of the most recent save, whatever older snapshot files of
\* either format are on disk.
C14_LoadReturnsLatestSave ==
    (ret.op = "load_positions_data" /\ saves > 0) =>
        \A f \in ret.value : f.content = saves

(***************************************************************************)
(* Claims about malformed input of analyze_trading_conditions              *)
(***************************************************************************)
\* C15: a position whose symbol is empty produces no alert and no error,
\* whatever its other fields are, and leaves the alerts collected for the
\* other positions of the batch as they were.
C15_EmptySymbolSkipped ==
    [][(/\ apc = "loop"
        /\ batchLen' = batchLen + 1
        /\ position'.mapping
        /\ position'.Symbol = "") =>
            (emitted' = <<>> /\ alerts' = alerts /\ apc' = "loop")]_vars

\* a position with an empty symbol, far above the profit threshold and
\* with a large margin without stop loss, evaluated after a position that
\* got alerts
C15_Witness ==
    /\ apc = "loop"
    /\ batchLen = 2
    /\ position.mapping
    /\ position.Symbol = ""
    /\ position.Pnl.num
    /\ position.Pnl.val > 3500
    /\ position.Margin > Dollars(150)
    /\ position.SLSet = "UNSET"
    /\ alerts # <<>>

\* C16: analyze_trading_conditions never raises, for any list of
\* positions, a list with an entry that is not a mapping included.
C16_NeverRaises == apc # "raised"

(***************************************************************************)
(* Claims about the normalization in export_positions                      *)
(***************************************************************************)
\* the trigger price of the first order of the list that has one of the
\* types and is for the symbol, 0 if there is none
FirstTrigger(orders, symbol, types) ==
    LET hits == {i \in DOMAIN orders :
                    orders[i].symbol = symbol /\ orders[i].type \in types}
    IN  IF hits = {} THEN 0
        ELSE orders[CHOOSE i \in hits : \A j \in hits : i <= j].stopPrice

\* C17: when the order list of a platform holds several stop orders, or
\* several take-profit orders, for one symbol, the SL, resp. TP, that the
\* join attaches to the symbol, and with it to the exported position, is
\* the trigger price of the first of them in the list; later orders of the
\* kind do not change it.
C17_FirstOrderWins ==
    \A symbol \in OrderSymbols :
        /\ (xpc = "bingx" /\ data = <<>>) =>
            /\ sl_tp_map[symbol].SL =
                FirstTrigger(orders_data, symbol, {"STOP_MARKET", "STOP"})
            /\ sl_tp_map[symbol].TP =
                FirstTrigger(orders_data, symbol, {"TAKE_PROFIT_MARKET", "TAKE_PROFIT"})
        /\ xpc = "kraken" =>
            /\ kraken_sl_tp_map[symbol].SL =
                FirstTrigger(kraken_orders, symbol, {"stop-loss", "stop-loss-limit"})
            /\ kraken_sl_tp_map[symbol].TP =
                FirstTrigger(kraken_orders, symbol, {"take-profit", "take-profit-limit"})

\* C18: one raw position record with an unparseable numeric field does not
\* abort the normalization, the other records of the batch still get
\* their rows; and the derived fields of a row of a well-formed record
\* come from that record alone.
C18_MalformedRecordIsolated ==
    /\ xpc # "unbound"
    /\ \A i \in DOMAIN data :
        (data[i].Platform = "BingX" /\ data[i].parsed) =>
            /\ data[i].Margin = BingXLocals(data[i].raw, UnboundLocals).margin_size
            /\ data[i].PnlPct = BingXPnlPct(data[i].raw)
            /\ data[i].Leverage = data[i].raw.leverage
            /\ data[i].Mark = data[i].raw.mark
            /\ data[i].Entry = data[i].raw.entry

(***************************************************************************)
(* Claims about failures inside a cycle                                    *)
(***************************************************************************)
OfPlatform(positions, exchange) ==
    SelectSeq(positions, LAMBDA p : p.Platform = exchange)
WellFormed(entries) == \A i \in DOMAIN entries : entries[i].size.num

C20_WriteFailureDoesNotBlockAlerts ==
    [][xpc = "writefailed" => xpc' = "analyzed"]_vars

C29_RsiRulesFollowPnl ==
    rsiArg.num =>
        /\ ("overbought" \in Kinds(RsiAlerts(rsiRet))) <=> (rsiArg.val > 2500)
        /\ ("oversold" \in Kinds(RsiAlerts(rsiRet))) <=> (rsiArg.val < -1500)
        /\ RsiRange(rsiArg.val) = "neutral" => (41000 <= rsiRet /\ rsiRet <= 65000)
        /\ RsiRange(rsiArg.val) = "up" => rsiRet > 72000
        /\ RsiRange(rsiArg.val) = "down" => rsiRet < 28000
        /\ (rsiPrevArg.num /\ rsiPrevArg.val <= rsiArg.val) => rsiPrevRet <= rsiRet

\* two successive calls on the two sides of the boundary 25: 65 at 25,
\* above 72 at 25.01
C29_Witness ==
    /\ rsiPrevArg = Num(2500)
    /\ rsiPrevRet = 65000
    /\ rsiArg = Num(2501)
    /\ rsiRet > 72000

\* C30: in the alerts of one position, high_profit comes with overbought,
\* oversold comes with losing_trade, losing_trade and high_profit never
\* come together, and there are at most three alerts.
C30_RuleImplications ==
    Evaluated =>
        LET K == Kinds(emitted)
        IN  /\ "high_profit" \in K => "overbought" \in K
            /\ "oversold" \in K => "losing_trade" \in K
            /\ ~({"losing_trade", "high_profit"} \subseteq K)
            /\ Len(emitted) <= 3

\* a position deep in loss with a large margin and no stop loss: three
\* alerts
C30_Witness ==
    /\ Evaluated
    /\ emitted = <<"oversold", "losing_trade", "no_stop_loss">>

(***************************************************************************)
(* Claims about a reader beside the writer                                 *)
(***************************************************************************)
\* C22: under any interleaving of a snapshot writer (save, then cleanup)
\* with a reader that picks the latest snapshot by modification time and
\* then opens it, the reader never fails on a missing file and never reads
\* a file that is only partly written.
C22_ReaderSeesWholeFiles == outcome \notin {"missing", "partial"}

(***************************************************************************)
(* Claims about the rows of the three platforms                            *)
(***************************************************************************)
\* C23: no derived field raises on a zero divisor: for a raw position
\* with entry price 0, mark price 0, leverage 0, position value 0 or
\* margin 0, and for a portfolio of total margin 0, the affected field
\* (Unrealized PnL %, the distances to TP and SL, margin size, PnL %,
\* margin % of portfolio) is 0, and the risk-to-reward ratio is None
\* without a stop, without a take profit and at distance 0 to the stop.
C23_ZeroDivisorsGiveZero ==
    \A i \in DOMAIN df :
        LET r == df[i].row
        IN  /\ (r.Platform = "BingX" /\ r.raw.entry = 0) => r.UPnlPct = 0
            /\ r.raw.mark = 0 => (r.DistTP = 0 /\ r.DistSL = 0)
            /\ r.raw.leverage = 0 => r.Margin = 0
            /\ (r.Platform = "BingX" /\ r.raw.leverage = 0) => r.UPnlPct = 0
            /\ (r.Platform = "BingX" /\ r.raw.notional = 0) => r.PnlPct = 0
            /\ (r.Platform = "Kraken" /\ r.Margin = 0) => r.PnlPct = 0
            /\ SumMargin(data) = 0 => df[i].MarginPct = 0
            /\ (r.SL = 0 \/ r.TP = 0 \/ r.SL = r.Mark) => ~r.RiskReward.num

(***************************************************************************)
(* Claims about the alert cycle                                            *)
(***************************************************************************)
\* C24: in run_trading_analysis, whenever the rule evaluation of a cycle
\* yields at least one alert, a portfolio message carrying those alerts
\* is handed to send_discord_alert in that same cycle.
C24_AlertsHandedToDelivery ==
    (cpc = "done" /\ cycle_alerts # <<>>) => sent = cycle_alerts

(***************************************************************************)
(* Claims about the Sundown Digest                                         *)
(***************************************************************************)
\* C25: on each day the backup job sends a digest iff the main job did
\* not deliver that day's digest: it never sends after a successful main
\* delivery, and on a weekday on which a digest is available it sends
\* whenever the delivery attempt of the main job failed.
C25_BackupIffMainFailed ==
    dpc = "night" =>
        /\ (mainJob.sent /\ mainJob.ok) => ~backupJob.sent
        /\ (mainJob.sent /\ ~mainJob.ok /\ weekday /\ backupJob.digest) =>
                backupJob.sent

(***************************************************************************)
(* Claims about Trend Status and the number of rows                        *)
(***************************************************************************)
\* C26: the Trend Status of every exported position is Uptrend iff its
\* Unrealized PnL % is greater than 30, Downtrend iff it is less than -20
\* and Sideways otherwise; at exactly 30 and exactly -20 it is Sideways.
C26_TrendStatusThresholds ==
    \A i \in DOMAIN data :
        LET r == data[i]
        IN  /\ r.Trend = "Uptrend" <=> r.UPnlPct > 3000
            /\ r.Trend = "Downtrend" <=> r.UPnlPct < -2000
            /\ r.Trend = "Sideways" <=> (-2000 <= r.UPnlPct /\ r.UPnlPct <= 3000)
            /\ r.Trend \in {"Uptrend", "Downtrend", "Sideways"}

\* a BingX row at exactly 30 and a Kraken row at exactly -20, both
\* Sideways
C26_Witness ==
    /\ Len(data) = 2
    /\ data[1].Platform = "BingX"
    /\ data[1].UPnlPct = 3000
    /\ data[1].Trend = "Sideways"
    /\ data[2].Platform = "Kraken"
    /\ data[2].UPnlPct = -2000
    /\ data[2].Trend = "Sideways"

\* C27: through the whole alert cycle (fetch_live_positions, then
\* analyze_trading_conditions) a position that has a stop loss set on its
\* exchange never produces a no_stop_loss alert, whatever its margin
\* size: a symbol whose fetched positions all have a stop loss has no
\* no_stop_loss alert among the alerts of the cycle.
C27_StopLossSilencesAlert ==
    \A a \in DOMAIN cycle_alerts :
        cycle_alerts[a].type = "no_stop_loss" =>
            \E i \in DOMAIN Exchanges :
                \E k \in DOMAIN responses[Exchanges[i]].positions :
                    LET pos == responses[Exchanges[i]].positions[k]
                    IN  pos.symbol = cycle_alerts[a].symbol /\ ~pos.stop

\* C28: for every platform each well-formed active raw position that the
\* fetch returned appears as one row of the exported set, so that the
\* number of rows of a platform is the number of its well-formed raw
\* positions: no such position is left out of the frame.
C28_EveryPositionIsARow == xpc = "done" => skipped = 0

====
